---------------------------- MODULE Spec2Model ----------------------------
(***************************************************************************)
(* Model of the `check` command of krakend-cobra (src/check.go): the       *)
(* validation pipeline checkFunc, the route simulation RunRouterFunc, the  *)
(* schema loader HTTPURLLoader.Load and the helper getVersionMinor.        *)
(*                                                                         *)
(* Strings are sequences of tokens (a token is a piece of text holding no  *)
(* separator the code looks for), so that len(s), s == "", strings.Split,  *)
(* fmt.Sprintf and the scheme of a location are computed, not assumed.     *)
(***************************************************************************)
EXTENDS Integers, Sequences, FiniteSets, TLC

VARIABLES
    \* package-level state read and written by checkFunc
    cfgFile, schemaValidation, schemaPath, schemaFetchOnline, rawEmbedSchema,
    debug, checkGinRoutes, port, IsTTY, KrakendVersion, parserHasLastSource,
    \* the command line of the process (re-applied on every invocation)
    args,
    \* the process and the position of checkFunc in it
    proc, pc, runs,
    \* locals of checkFunc
    v, doc, sch, loadErr, dumped,
    \* what the run has done so far: stages executed, lines printed, I/O made
    trace, out, io,
    \* HTTPURLLoader.Load: the response in hand
    resp,
    \* RunRouterFunc: its copy of the configuration, its context, its panic
    cfg, ctx, cancelCalled, panicVal, rrErr,
    \* the pure-function harness of getVersionMinor
    verIn, verOut

vars == <<cfgFile, schemaValidation, schemaPath, schemaFetchOnline, rawEmbedSchema,
          debug, checkGinRoutes, port, IsTTY, KrakendVersion, parserHasLastSource,
          args, proc, pc, runs, v, doc, sch, loadErr, dumped, trace, out, io, resp,
          cfg, ctx, cancelCalled, panicVal, rrErr, verIn, verOut>>

globals == <<cfgFile, schemaValidation, schemaPath, schemaFetchOnline, rawEmbedSchema,
             debug, checkGinRoutes, port, IsTTY, KrakendVersion, parserHasLastSource>>

rrVars == <<cfg, ctx, cancelCalled, panicVal, rrErr>>

verVars == <<verIn, verOut>>

-----------------------------------------------------------------------------
(* Bounds *)

\* invocations of checkFunc in one process
MaxRuns == 2

\* length, in tokens, of the version strings getVersionMinor is applied to
MaxVerLen == 4

-----------------------------------------------------------------------------
(* Values *)

Nil == "nil"

\* the zero values of the locals
NoConfig   == [Debug |-> FALSE, Port |-> 0]
NoSchema   == [id |-> <<>>, from |-> "none"]
NoError    == <<>>
NoResponse == [StatusCode |-> 0, url |-> <<>>, open |-> FALSE, closes |-> 0,
               parsed |-> FALSE, deferClose |-> FALSE]
NoPanic    == [kind |-> "none", text |-> ""]

EmptyString == <<>>

\* tokens of a version string: two numbers, the separator, a pre-release qualifier
VerTokens == {"2", "7", ".", "-rc1"}

RECURSIVE StringsUpTo(_)
StringsUpTo(n) ==
    IF n = 0 THEN {<<>>}
    ELSE LET shorter == StringsUpTo(n - 1)
         IN  shorter \cup {Append(s, t) : s \in {x \in shorter : Len(x) = n - 1}, t \in VerTokens}

\* core.KrakendVersion of the builds the pipeline is run in
SystemVersions == {<<"2", ".", "7", ".", "2">>, <<"2", ".", "7", "-rc1">>, <<"2">>}

\* values of --schema
FileLocation  == <<"schemas/krakend.json">>
HTTPLocation  == <<"http", "://", "example.com/krakend.json">>
HTTPSLocation == <<"https", "://", "example.com/krakend.json">>
FTPLocation   == <<"ftp", "://", "example.com/krakend.json">>
SchemaFlagValues == {EmptyString, FileLocation, HTTPLocation, HTTPSLocation, FTPLocation}

\* texts NewCheckCmd may be given: none, a schema, text that is no JSON,
\* JSON that is no schema
GoodEmbed     == <<"schema document">>
NoJSONEmbed   == <<"text that is no JSON">>
NoSchemaEmbed == <<"JSON that is no schema">>
EmbedTexts == {EmptyString, GoodEmbed, NoJSONEmbed, NoSchemaEmbed}

ConfigPath == <<"krakend.json">>

ColorRed   == "<red>"
ColorGreen == "<green>"
ColorReset == "<reset>"

\* http.StatusOK, and the statuses a server answers with
StatusOK == 200
Statuses == {StatusOK, 404, 500}

\* what a panic of the routing layer may carry
PanicKinds == {"string", "error", "other"}

-----------------------------------------------------------------------------
(* Pure functions *)

\* index of the first "." of s, 0 when there is none
FirstDot(s) ==
    IF \E i \in 1..Len(s) : s[i] = "."
    THEN CHOOSE i \in 1..Len(s) : s[i] = "." /\ \A j \in 1..(i - 1) : s[j] # "."
    ELSE 0

\* strings.Split(s, "."): the components between the dots, one more than dots
RECURSIVE Split(_)
Split(s) ==
    IF FirstDot(s) = 0 THEN <<s>>
    ELSE <<SubSeq(s, 1, FirstDot(s) - 1)>> \o Split(SubSeq(s, FirstDot(s) + 1, Len(s)))

\* a getVersionMinor that forgets the separator when joining
getVersionMinorNoDot(ver) ==
    LET comps == Split(ver)
    IN  IF Len(comps) < 2 THEN ver ELSE comps[1] \o comps[2]

getVersionMinor(ver) ==
    LET comps == Split(ver)
    IN  IF Len(comps) < 2 THEN ver ELSE comps[1] \o <<".">> \o comps[2]

\* var onlineSchema, as the text before and after its %s
onlineSchemaHead == <<"https", "://", "www.krakend.io/schema/v">>
onlineSchemaTail == <<"/krakend.json">>

\* fmt.Sprintf(onlineSchema, x)
OnlineSchemaURL(x) == onlineSchemaHead \o x \o onlineSchemaTail

\* errorMsg
errorMsg(content) ==
    IF ~IsTTY THEN content ELSE <<ColorRed>> \o content \o <<ColorReset>>

\* the scheme jsonschema's compiler dispatches a location on: a location that
\* is no URL is a path of the local file system
Scheme(loc) ==
    IF Len(loc) >= 2 /\ loc[2] = "://" THEN loc[1] ELSE "file"

\* jsonschema.UnmarshalJSON of the embedded text
EmbedParses(text) == text # NoJSONEmbed

\* the document the embedded text parses to
EmbedDocument(text) == IF text = GoodEmbed THEN "schema" ELSE "malformed"

-----------------------------------------------------------------------------
(* The process: construction and invocation *)

\* the command lines the process may be started with
CommandLines ==
    [config : {EmptyString, ConfigPath}, lint : BOOLEAN, schema : SchemaFlagValues,
     online : BOOLEAN, debug : 0..1, routes : BOOLEAN, port : {0, 9090}]

\* the flags at their defaults, the embedded schema as NewCheckCmd stored it
InitGlobals ==
    /\ cfgFile = EmptyString
    /\ schemaValidation = FALSE
    /\ schemaPath = EmptyString
    /\ schemaFetchOnline = FALSE
    /\ debug = 0
    /\ checkGinRoutes = FALSE
    /\ port = 0
    /\ rawEmbedSchema \in EmbedTexts
    /\ IsTTY \in BOOLEAN
    /\ KrakendVersion \in SystemVersions
    /\ parserHasLastSource \in BOOLEAN

InitLocals ==
    /\ v = NoConfig
    /\ doc = Nil
    /\ sch = NoSchema
    /\ loadErr = NoError
    /\ dumped = NoConfig
    /\ trace = <<>>
    /\ out = <<>>
    /\ io = <<>>
    /\ resp = NoResponse
    /\ cfg = NoConfig
    /\ ctx = "none"
    /\ cancelCalled = FALSE
    /\ panicVal = NoPanic
    /\ rrErr = Nil

Init ==
    /\ InitGlobals
    /\ InitLocals
    /\ args \in CommandLines
    /\ proc = "idle"
    /\ pc = "idle"
    /\ runs = 0
    /\ verIn = EmptyString
    /\ verOut = EmptyString

\* The command is executed: the flags given on the command line are stored in
\* their variables, a flag that is not given leaves its variable as it is, and
\* checkFunc starts with fresh locals.
Invoke ==
    /\ proc \in {"idle", "returned"}
    /\ runs < MaxRuns
    /\ runs' = runs + 1
    /\ cfgFile' = IF args.config # EmptyString THEN args.config ELSE cfgFile
    /\ schemaValidation' = (args.lint \/ schemaValidation)
    /\ schemaPath' = IF args.schema # EmptyString THEN args.schema ELSE schemaPath
    /\ schemaFetchOnline' = (args.online \/ schemaFetchOnline)
    /\ debug' = IF args.debug > 0 THEN args.debug ELSE debug
    /\ checkGinRoutes' = (args.routes \/ checkGinRoutes)
    /\ port' = IF args.port # 0 THEN args.port ELSE port
    /\ proc' = "running"
    /\ pc' = "entry"
    /\ v' = NoConfig /\ doc' = Nil /\ sch' = NoSchema /\ loadErr' = NoError
    /\ dumped' = NoConfig
    /\ trace' = <<>> /\ out' = <<>> /\ io' = <<>> /\ resp' = NoResponse
    /\ cfg' = NoConfig /\ ctx' = "none" /\ cancelCalled' = FALSE
    /\ panicVal' = NoPanic /\ rrErr' = Nil
    /\ UNCHANGED <<rawEmbedSchema, IsTTY, KrakendVersion, parserHasLastSource, args, verVars>>

-----------------------------------------------------------------------------
(* checkFunc *)

\* cmd.Println(line); os.Exit(1)
Exit(lines) ==
    /\ out' = lines
    /\ proc' = "exit1"
    /\ pc' = "exited"

\* the stage that follows the lint block, the dump, the route check
AfterDump == IF checkGinRoutes THEN "routes" ELSE "report"
\* a dump that is not conditioned on the debug level
AfterLintAlwaysDump == "dump"
AfterLint == IF debug > 0 THEN "dump" ELSE AfterDump
\* a lint block that is not conditioned on the lint flag
AfterParseAlwaysLint == "rawbytes"
AfterParse == IF schemaValidation THEN "rawbytes" ELSE AfterLint

CheckConfigPath ==
    /\ pc = "entry"
    /\ IF cfgFile = EmptyString
       THEN Exit(Append(out, errorMsg(<<"Please, provide the path to the configuration file with --config or see all the options with --help">>)))
       ELSE /\ out' = Append(out, <<"Parsing configuration file: ">> \o cfgFile)
            /\ pc' = "parse"
            /\ UNCHANGED proc
    /\ UNCHANGED <<globals, args, runs, v, doc, sch, loadErr, dumped, trace, io, resp, rrVars, verVars>>

Parse ==
    /\ pc = "parse"
    /\ trace' = Append(trace, "Parse")
    /\ \/ /\ Exit(Append(out, errorMsg(<<"ERROR", " parsing the configuration file:">>) \o <<"\t", "parse error", "\n">>))
          /\ UNCHANGED v
       \/ /\ \E d \in BOOLEAN : v' = [Debug |-> d, Port |-> 8080]
          /\ pc' = AfterParse
          /\ UNCHANGED <<proc, out>>
    /\ UNCHANGED <<globals, args, runs, doc, sch, loadErr, dumped, io, resp, rrVars, verVars>>

\* a retrieval that falls back to the file when LastSource fails
ObtainRawBytesWithFallback ==
    /\ pc = "rawbytes"
    /\ trace' = Append(trace, "ObtainRawBytes")
    /\ LET linting == Append(out, <<"Linting configuration file...">>)
           first == Append(io, IF parserHasLastSource THEN "LastSource" ELSE "ReadFile(cfgFile)")
       IN  \/ /\ io' = first
              /\ out' = linting
              /\ pc' = "json"
              /\ UNCHANGED proc
           \/ /\ io' = IF parserHasLastSource THEN Append(first, "ReadFile(cfgFile)") ELSE first
              /\ \/ Exit(Append(linting, errorMsg(<<"ERROR", " loading the configuration content:">>) \o <<"\t", "read error", "\n">>))
                 \/ /\ parserHasLastSource
                    /\ out' = linting
                    /\ pc' = "json"
                    /\ UNCHANGED proc
    /\ UNCHANGED <<globals, args, runs, v, doc, sch, loadErr, dumped, resp, rrVars, verVars>>

ObtainRawBytes ==
    /\ pc = "rawbytes"
    /\ trace' = Append(trace, "ObtainRawBytes")
    /\ io' = Append(io, IF parserHasLastSource THEN "LastSource" ELSE "ReadFile(cfgFile)")
    /\ LET linting == Append(out, <<"Linting configuration file...">>)
       IN  \/ Exit(Append(linting, errorMsg(<<"ERROR", " loading the configuration content:">>) \o <<"\t", "read error", "\n">>))
           \/ /\ out' = linting
              /\ pc' = "json"
              /\ UNCHANGED proc
    /\ UNCHANGED <<globals, args, runs, v, doc, sch, loadErr, dumped, resp, rrVars, verVars>>

\* a JSON conversion that comes after the test of the two schema options
ParseAsJSONAfterConflictTest ==
    /\ pc = "json"
    /\ trace' = Append(trace, "ParseAsJSON")
    /\ IF Len(schemaPath) > 0 /\ schemaFetchOnline
       THEN Exit(Append(out, errorMsg(<<"You cannot use both the --schema and --online options simultaneously. These arguments are mutually exclusive.">>)))
       ELSE \/ Exit(Append(out, errorMsg(<<"ERROR", " converting configuration content to JSON:">>) \o <<"\t", "syntax error", "\n">>))
            \/ /\ pc' = "resolve"
               /\ UNCHANGED <<proc, out>>
    /\ UNCHANGED <<globals, args, runs, v, doc, sch, loadErr, dumped, io, resp, rrVars, verVars>>

ParseAsJSON ==
    /\ pc = "json"
    /\ trace' = Append(trace, "ParseAsJSON")
    /\ \/ Exit(Append(out, errorMsg(<<"ERROR", " converting configuration content to JSON:">>) \o <<"\t", "syntax error", "\n">>))
       \/ /\ pc' = "resolve"
          /\ UNCHANGED <<proc, out>>
    /\ UNCHANGED <<globals, args, runs, v, doc, sch, loadErr, dumped, io, resp, rrVars, verVars>>

\* a resolution that falls back to the online schema only when no location
\* was given
ResolveCustomBeforeFallback ==
    /\ pc = "resolve"
    /\ trace' = Append(trace, "ResolveSchemaSource")
    /\ IF Len(schemaPath) > 0 /\ schemaFetchOnline
       THEN /\ Exit(Append(out, errorMsg(<<"You cannot use both the --schema and --online options simultaneously. These arguments are mutually exclusive.">>)))
            /\ UNCHANGED schemaPath
       ELSE /\ schemaPath' = IF schemaFetchOnline \/ (rawEmbedSchema = EmptyString /\ Len(schemaPath) = 0)
                             THEN OnlineSchemaURL(getVersionMinor(KrakendVersion))
                             ELSE schemaPath
            /\ pc' = "load"
            /\ UNCHANGED <<proc, out>>
    /\ UNCHANGED <<cfgFile, schemaValidation, schemaFetchOnline, rawEmbedSchema, debug,
                   checkGinRoutes, port, IsTTY, KrakendVersion, parserHasLastSource>>
    /\ UNCHANGED <<args, runs, v, doc, sch, loadErr, dumped, io, resp, rrVars, verVars>>

\* a resolution that lets --online win over --schema instead of refusing both
ResolveOnlineWins ==
    /\ pc = "resolve"
    /\ trace' = Append(trace, "ResolveSchemaSource")
    /\ schemaPath' = IF schemaFetchOnline \/ rawEmbedSchema = EmptyString
                      THEN OnlineSchemaURL(getVersionMinor(KrakendVersion))
                      ELSE schemaPath
    /\ pc' = "load"
    /\ UNCHANGED <<proc, out>>
    /\ UNCHANGED <<cfgFile, schemaValidation, schemaFetchOnline, rawEmbedSchema, debug,
                   checkGinRoutes, port, IsTTY, KrakendVersion, parserHasLastSource>>
    /\ UNCHANGED <<args, runs, v, doc, sch, loadErr, dumped, io, resp, rrVars, verVars>>

\* a resolution that tests the conflict only when an embedded schema exists
ResolveConflictOnlyWithEmbed ==
    /\ pc = "resolve"
    /\ trace' = Append(trace, "ResolveSchemaSource")
    /\ IF Len(schemaPath) > 0 /\ schemaFetchOnline /\ rawEmbedSchema # EmptyString
       THEN /\ Exit(Append(out, errorMsg(<<"You cannot use both the --schema and --online options simultaneously. These arguments are mutually exclusive.">>)))
            /\ UNCHANGED schemaPath
       ELSE /\ schemaPath' = IF schemaFetchOnline \/ rawEmbedSchema = EmptyString
                             THEN OnlineSchemaURL(getVersionMinor(KrakendVersion))
                             ELSE schemaPath
            /\ pc' = "load"
            /\ UNCHANGED <<proc, out>>
    /\ UNCHANGED <<cfgFile, schemaValidation, schemaFetchOnline, rawEmbedSchema, debug,
                   checkGinRoutes, port, IsTTY, KrakendVersion, parserHasLastSource>>
    /\ UNCHANGED <<args, runs, v, doc, sch, loadErr, dumped, io, resp, rrVars, verVars>>

ResolveSchemaSource ==
    /\ pc = "resolve"
    /\ trace' = Append(trace, "ResolveSchemaSource")
    /\ IF Len(schemaPath) > 0 /\ schemaFetchOnline
       THEN /\ Exit(Append(out, errorMsg(<<"You cannot use both the --schema and --online options simultaneously. These arguments are mutually exclusive.">>)))
            /\ UNCHANGED schemaPath
       ELSE /\ schemaPath' = IF schemaFetchOnline \/ rawEmbedSchema = EmptyString
                             THEN OnlineSchemaURL(getVersionMinor(KrakendVersion))
                             ELSE schemaPath
            /\ pc' = "load"
            /\ UNCHANGED <<proc, out>>
    /\ UNCHANGED <<cfgFile, schemaValidation, schemaFetchOnline, rawEmbedSchema, debug,
                   checkGinRoutes, port, IsTTY, KrakendVersion, parserHasLastSource>>
    /\ UNCHANGED <<args, runs, v, doc, sch, loadErr, dumped, io, resp, rrVars, verVars>>

\* a load that does not announce the location it loads from
LoadSchemaSilent ==
    /\ pc = "load"
    /\ trace' = Append(trace, "LoadSchema")
    /\ IF Len(schemaPath) > 0
       THEN LET using == out
                failed(e) == Append(using, errorMsg(<<"ERROR", " compiling the custom schema:">>) \o <<"\t">> \o e \o <<"\n">>)
            IN  CASE Scheme(schemaPath) = "file" ->
                       /\ io' = Append(io, "ReadFile(schema)")
                       /\ \/ /\ Exit(failed(<<"cannot load the file">>))
                             /\ UNCHANGED doc
                          \/ /\ doc' \in {"schema", "malformed"}
                             /\ out' = using
                             /\ pc' = "compile"
                             /\ UNCHANGED proc
                  [] Scheme(schemaPath) \in {"http", "https"} ->
                       /\ out' = using
                       /\ pc' = "http_get"
                       /\ UNCHANGED <<proc, doc, io>>
                  [] OTHER ->
                       /\ Exit(failed(<<"unsupported url scheme">>))
                       /\ UNCHANGED <<doc, io>>
       ELSE /\ io' = Append(io, "UnmarshalJSON(rawEmbedSchema)")
            /\ IF EmbedParses(rawEmbedSchema)
               THEN /\ doc' = EmbedDocument(rawEmbedSchema)
                    /\ pc' = "compile"
                    /\ UNCHANGED <<proc, out>>
               ELSE /\ Exit(Append(out, errorMsg(<<"ERROR", " parsing the embed schema:">>) \o <<"\t", "syntax error", "\n">>))
                    /\ UNCHANGED doc
    /\ UNCHANGED <<globals, args, runs, v, sch, loadErr, dumped, resp, rrVars, verVars>>

\* The location branch builds the loader and calls compiler.Compile, which
\* loads the document through the loader of the location's scheme; the other
\* branch parses the embedded text.
LoadSchema ==
    /\ pc = "load"
    /\ trace' = Append(trace, "LoadSchema")
    /\ IF Len(schemaPath) > 0
       THEN LET using == Append(out, <<"Using schema ">> \o schemaPath)
                failed(e) == Append(using, errorMsg(<<"ERROR", " compiling the custom schema:">>) \o <<"\t">> \o e \o <<"\n">>)
            IN  CASE Scheme(schemaPath) = "file" ->
                       /\ io' = Append(io, "ReadFile(schema)")
                       /\ \/ /\ Exit(failed(<<"cannot load the file">>))
                             /\ UNCHANGED doc
                          \/ /\ doc' \in {"schema", "malformed"}
                             /\ out' = using
                             /\ pc' = "compile"
                             /\ UNCHANGED proc
                  [] Scheme(schemaPath) \in {"http", "https"} ->
                       /\ out' = using
                       /\ pc' = "http_get"
                       /\ UNCHANGED <<proc, doc, io>>
                  [] OTHER ->
                       /\ Exit(failed(<<"unsupported url scheme">>))
                       /\ UNCHANGED <<doc, io>>
       ELSE /\ io' = Append(io, "UnmarshalJSON(rawEmbedSchema)")
            /\ IF EmbedParses(rawEmbedSchema)
               THEN /\ doc' = EmbedDocument(rawEmbedSchema)
                    /\ pc' = "compile"
                    /\ UNCHANGED <<proc, out>>
               ELSE /\ Exit(Append(out, errorMsg(<<"ERROR", " parsing the embed schema:">>) \o <<"\t", "syntax error", "\n">>))
                    /\ UNCHANGED doc
    /\ UNCHANGED <<globals, args, runs, v, sch, loadErr, dumped, resp, rrVars, verVars>>

-----------------------------------------------------------------------------
(* HTTPURLLoader.Load *)

\* fmt.Errorf("%s returned status code %d", url, resp.StatusCode)
StatusError(url, code) == url \o <<" returned status code ", ToString(code)>>

\* resp.Body.Close()
CloseBody(r) == [r EXCEPT !.open = FALSE, !.closes = @ + 1]

\* what a return of Load does to the response: the deferred call, if any, runs
RunDeferred(r) ==
    IF r.deferClose THEN [CloseBody(r) EXCEPT !.deferClose = FALSE] ELSE r

\* client.Get(url): a transport error, or a response with its body open
HTTPGet ==
    /\ pc = "http_get"
    /\ io' = Append(io, "HTTPGet")
    /\ \/ /\ loadErr' = <<"transport error">>
          /\ pc' = "load_failed"
          /\ UNCHANGED resp
       \/ /\ \E code \in Statuses :
                resp' = [StatusCode |-> code, url |-> schemaPath, open |-> TRUE,
                         closes |-> 0, parsed |-> FALSE, deferClose |-> FALSE]
          /\ pc' = "http_status"
          /\ UNCHANGED loadErr
    /\ UNCHANGED <<globals, args, proc, runs, v, doc, sch, dumped, trace, out, rrVars, verVars>>

\* a status check that is missing: every response goes on to the parse
HTTPCheckStatusMissing ==
    /\ pc = "http_status"
    /\ resp' = [resp EXCEPT !.deferClose = TRUE]
    /\ pc' = "http_parse"
    /\ UNCHANGED loadErr
    /\ UNCHANGED <<globals, args, proc, runs, v, doc, sch, dumped, trace, out, io, rrVars, verVars>>

\* a status check that defers the closing before it looks at the status
HTTPCheckStatusDeferFirst ==
    /\ pc = "http_status"
    /\ IF resp.StatusCode # StatusOK
       THEN /\ resp' = RunDeferred(CloseBody([resp EXCEPT !.deferClose = TRUE]))
            /\ loadErr' = StatusError(resp.url, resp.StatusCode)
            /\ pc' = "load_failed"
       ELSE /\ resp' = [resp EXCEPT !.deferClose = TRUE]
            /\ pc' = "http_parse"
            /\ UNCHANGED loadErr
    /\ UNCHANGED <<globals, args, proc, runs, v, doc, sch, dumped, trace, out, io, rrVars, verVars>>

\* the status check: a response that is not OK is closed and refused, an OK
\* one has the closing of its body deferred
HTTPCheckStatus ==
    /\ pc = "http_status"
    /\ IF resp.StatusCode # StatusOK
       THEN /\ resp' = RunDeferred(CloseBody(resp))
            /\ loadErr' = StatusError(resp.url, resp.StatusCode)
            /\ pc' = "load_failed"
       ELSE /\ resp' = [resp EXCEPT !.deferClose = TRUE]
            /\ pc' = "http_parse"
            /\ UNCHANGED loadErr
    /\ UNCHANGED <<globals, args, proc, runs, v, doc, sch, dumped, trace, out, io, rrVars, verVars>>

\* return jsonschema.UnmarshalJSON(resp.Body)
HTTPParseBody ==
    /\ pc = "http_parse"
    /\ resp' = RunDeferred([resp EXCEPT !.parsed = TRUE])
    /\ \/ /\ loadErr' = <<"syntax error">>
          /\ pc' = "load_failed"
          /\ UNCHANGED doc
       \/ /\ doc' \in {"schema", "malformed"}
          /\ pc' = "compile"
          /\ UNCHANGED loadErr
    /\ UNCHANGED <<globals, args, proc, runs, v, sch, dumped, trace, out, io, rrVars, verVars>>

-----------------------------------------------------------------------------
(* checkFunc, continued *)

\* compiler.Compile returned the loader's error
LoadFailed ==
    /\ pc = "load_failed"
    /\ Exit(Append(out, errorMsg(<<"ERROR", " compiling the custom schema:">>) \o <<"\t">> \o loadErr \o <<"\n">>))
    /\ UNCHANGED <<globals, args, runs, v, doc, sch, loadErr, dumped, trace, io, resp, rrVars, verVars>>

\* a compilation that registers every document under schemaPath
CompileSchemaUnderPath ==
    /\ pc = "compile"
    /\ trace' = Append(trace, "CompileSchema")
    /\ io' = Append(io, "Compile")
    /\ LET custom == Len(schemaPath) > 0
       IN  IF doc = "schema"
           THEN /\ sch' = [id |-> schemaPath,
                           from |-> IF custom THEN "location" ELSE "embedded"]
                /\ pc' = "validate"
                /\ UNCHANGED <<proc, out>>
           ELSE /\ Exit(Append(out, errorMsg(<<"ERROR", IF custom THEN " compiling the custom schema:"
                                                         ELSE " compiling the embed schema:">>)
                                     \o <<"\t", "compilation error", "\n">>))
                /\ UNCHANGED sch
    /\ UNCHANGED <<globals, args, runs, v, doc, loadErr, dumped, resp, rrVars, verVars>>

\* the compilation of the loaded document, under the location or "schema.json"
CompileSchema ==
    /\ pc = "compile"
    /\ trace' = Append(trace, "CompileSchema")
    /\ io' = Append(io, "Compile")
    /\ LET custom == Len(schemaPath) > 0
       IN  IF doc = "schema"
           THEN /\ sch' = [id |-> IF custom THEN schemaPath ELSE <<"schema.json">>,
                           from |-> IF custom THEN "location" ELSE "embedded"]
                /\ pc' = "validate"
                /\ UNCHANGED <<proc, out>>
           ELSE /\ Exit(Append(out, errorMsg(<<"ERROR", IF custom THEN " compiling the custom schema:"
                                                         ELSE " compiling the embed schema:">>)
                                     \o <<"\t", "compilation error", "\n">>))
                /\ UNCHANGED sch
    /\ UNCHANGED <<globals, args, runs, v, doc, loadErr, dumped, resp, rrVars, verVars>>

\* a validation whose failure is printed and not exited on
ValidateNoExit ==
    /\ pc = "validate"
    /\ trace' = Append(trace, "Validate")
    /\ \/ /\ out' = Append(out, errorMsg(<<"ERROR", " linting the configuration file:">>) \o <<"\t", "violations", "\n">>)
          /\ pc' = AfterLint
          /\ UNCHANGED proc
       \/ /\ pc' = AfterLint
          /\ UNCHANGED <<proc, out>>
    /\ UNCHANGED <<globals, args, runs, v, doc, sch, loadErr, dumped, io, resp, rrVars, verVars>>

Validate ==
    /\ pc = "validate"
    /\ trace' = Append(trace, "Validate")
    /\ \/ Exit(Append(out, errorMsg(<<"ERROR", " linting the configuration file:">>) \o <<"\t", "violations", "\n">>))
       \/ /\ pc' = AfterLint
          /\ UNCHANGED <<proc, out>>
    /\ UNCHANGED <<globals, args, runs, v, doc, sch, loadErr, dumped, io, resp, rrVars, verVars>>

Dump ==
    /\ pc = "dump"
    /\ trace' = Append(trace, "Dump")
    /\ \/ /\ Exit(Append(out, errorMsg(<<"ERROR", " checking the configuration file:">>) \o <<"\t", "dump error", "\n">>))
          /\ UNCHANGED dumped
       \/ /\ out' = Append(out, <<"dump">>)
          /\ dumped' = v
          /\ pc' = AfterDump
          /\ UNCHANGED proc
    /\ UNCHANGED <<globals, args, runs, v, doc, sch, loadErr, io, resp, rrVars, verVars>>

-----------------------------------------------------------------------------
(* RunRouterFunc *)

\* a call that hands the configuration over by reference: the overrides land
\* in the caller's value
RunRouterStartByReference ==
    /\ pc = "routes"
    /\ trace' = Append(trace, "SimulateRoutes")
    /\ cfg' = [Debug |-> (v.Debug \/ debug > 0),
               Port |-> IF port # 0 THEN port ELSE v.Port]
    /\ v' = cfg'
    /\ ctx' = "active"
    /\ cancelCalled' = FALSE
    /\ panicVal' = NoPanic
    /\ rrErr' = Nil
    /\ pc' = "rr_run"
    /\ UNCHANGED <<globals, args, proc, runs, doc, sch, loadErr, dumped, out, io, resp, verVars>>

\* the call: cfg is the callee's copy of v; the overrides and the context
RunRouterStart ==
    /\ pc = "routes"
    /\ trace' = Append(trace, "SimulateRoutes")
    /\ cfg' = [Debug |-> (v.Debug \/ debug > 0),
               Port |-> IF port # 0 THEN port ELSE v.Port]
    /\ ctx' = "active"
    /\ cancelCalled' = FALSE
    /\ panicVal' = NoPanic
    /\ rrErr' = Nil
    /\ pc' = "rr_run"
    /\ UNCHANGED <<globals, args, proc, runs, v, doc, sch, loadErr, dumped, out, io, resp, verVars>>

\* ...NewWithContext(ctx).Run(cfg): it returns before the deadline, returns
\* because the deadline ended the context, or panics
RouterRun ==
    /\ pc = "rr_run"
    /\ \/ /\ pc' = "rr_cancel"
          /\ UNCHANGED <<ctx, panicVal>>
       \/ /\ ctx' = "expired"
          /\ pc' = "rr_cancel"
          /\ UNCHANGED panicVal
       \/ /\ \E k \in PanicKinds : panicVal' = [kind |-> k, text |-> "router fault"]
          /\ pc' = "rr_recover"
          /\ UNCHANGED ctx
    /\ UNCHANGED <<globals, args, proc, runs, v, doc, sch, loadErr, dumped, trace, out, io, resp,
                   cfg, cancelCalled, rrErr, verVars>>

\* cancel(); return nil (the deferred function recovers nothing)
RouterCancelReturn ==
    /\ pc = "rr_cancel"
    /\ cancelCalled' = TRUE
    /\ ctx' = IF ctx = "active" THEN "canceled" ELSE ctx
    /\ rrErr' = Nil
    /\ pc' = "rr_returned"
    /\ UNCHANGED <<globals, args, proc, runs, v, doc, sch, loadErr, dumped, trace, out, io, resp,
                   cfg, panicVal, verVars>>

\* the deferred function after a panic: err = errors.New(r.(string)); the
\* type assertion panics in its turn when r is no string, and nothing recovers
\* that panic
RouterRecover ==
    /\ pc = "rr_recover"
    /\ IF panicVal.kind = "string"
       THEN /\ rrErr' = panicVal.text
            /\ pc' = "rr_returned"
            /\ UNCHANGED <<proc, panicVal>>
       ELSE /\ panicVal' = [kind |-> "error", text |-> "interface conversion: interface {} is not string"]
            /\ proc' = "crashed"
            /\ pc' = "exited"
            /\ UNCHANGED rrErr
    /\ UNCHANGED <<globals, args, runs, v, doc, sch, loadErr, dumped, trace, out, io, resp,
                   cfg, ctx, cancelCalled, verVars>>

\* back in checkFunc: if err := RunRouterFunc(v); err != nil
RouterReturned ==
    /\ pc = "rr_returned"
    /\ IF rrErr # Nil
       THEN Exit(Append(out, errorMsg(<<"ERROR", " testing the configuration file:">>) \o <<"\t", rrErr, "\n">>))
       ELSE /\ pc' = "report"
            /\ UNCHANGED <<proc, out>>
    /\ UNCHANGED <<globals, args, runs, v, doc, sch, loadErr, dumped, trace, io, resp, rrVars, verVars>>

-----------------------------------------------------------------------------
(* checkFunc, the end *)

ReportSuccess ==
    /\ pc = "report"
    /\ trace' = Append(trace, "Report")
    /\ out' = Append(out, IF IsTTY THEN <<ColorGreen, "Syntax OK!", ColorReset>>
                                   ELSE <<"Syntax OK!">>)
    /\ proc' = "returned"
    /\ pc' = "done"
    /\ UNCHANGED <<globals, args, runs, v, doc, sch, loadErr, dumped, io, resp, rrVars, verVars>>

Next ==
    \/ Invoke
    \/ CheckConfigPath
    \/ Parse
    \/ ObtainRawBytes
    \/ ParseAsJSON
    \/ ResolveSchemaSource
    \/ LoadSchema
    \/ HTTPGet
    \/ HTTPCheckStatus
    \/ HTTPParseBody
    \/ LoadFailed
    \/ CompileSchema
    \/ Validate
    \/ Dump
    \/ RunRouterStart
    \/ RouterRun
    \/ RouterCancelReturn
    \/ RouterRecover
    \/ RouterReturned
    \/ ReportSuccess

Spec == Init /\ [][Next]_vars

-----------------------------------------------------------------------------
(* getVersionMinor on its own: every version string up to MaxVerLen tokens *)

VersionInit ==
    /\ cfgFile = EmptyString
    /\ schemaValidation = FALSE
    /\ schemaPath = EmptyString
    /\ schemaFetchOnline = FALSE
    /\ debug = 0
    /\ checkGinRoutes = FALSE
    /\ port = 0
    /\ rawEmbedSchema = EmptyString
    /\ IsTTY = FALSE
    /\ KrakendVersion \in StringsUpTo(MaxVerLen)
    /\ parserHasLastSource = FALSE
    /\ InitLocals
    /\ args = [config |-> EmptyString, lint |-> FALSE, schema |-> EmptyString,
               online |-> FALSE, debug |-> 0, routes |-> FALSE, port |-> 0]
    /\ proc = "idle"
    /\ pc = "version"
    /\ runs = 0
    /\ verIn = EmptyString
    /\ verOut = EmptyString

\* getVersionMinor(core.KrakendVersion), as line 93 calls it
CallGetVersionMinor ==
    /\ pc = "version"
    /\ verIn' = KrakendVersion
    /\ verOut' = getVersionMinor(KrakendVersion)
    /\ pc' = "version_done"
    /\ UNCHANGED <<globals, args, proc, runs, v, doc, sch, loadErr, dumped, trace, out, io, resp, rrVars>>

VersionNext == CallGetVersionMinor

VersionSpec == VersionInit /\ [][VersionNext]_vars

-----------------------------------------------------------------------------
(* What a run has done, read off its record *)

Has(seq, x) == \E i \in DOMAIN seq : seq[i] = x

Count(seq, x) == Cardinality({i \in DOMAIN seq : seq[i] = x})

Printed(token) == \E i \in DOMAIN out : Has(out[i], token)

LastLine == IF Len(out) = 0 THEN <<>> ELSE out[Len(out)]

LastStage == IF Len(trace) = 0 THEN "none" ELSE trace[Len(trace)]

Ended == proc \in {"returned", "exit1", "crashed"}

ConflictMessage == "You cannot use both the --schema and --online options simultaneously. These arguments are mutually exclusive."

\* the run ended in the refusal of --schema together with --online
EndedInConflict ==
    /\ proc = "exit1"
    /\ Has(LastLine, ConflictMessage)
    /\ ~Printed("Syntax OK!")

\* the schema has been neither loaded nor compiled, from any source
NoSchemaLoading ==
    /\ ~Has(trace, "LoadSchema")
    /\ ~Has(trace, "CompileSchema")
    /\ \A e \in {"ReadFile(schema)", "HTTPGet", "UnmarshalJSON(rawEmbedSchema)", "Compile"} : ~Has(io, e)
    /\ doc = Nil /\ sch = NoSchema /\ resp = NoResponse

-----------------------------------------------------------------------------
(* Claims *)

\* C1: a fault raised by the routing layer never escapes RunRouterFunc: whatever
\* the panic carries, RunRouterFunc returns a non-nil error and the process is
\* not terminated by the fault.
C1_FaultNeverEscapes ==
    (panicVal # NoPanic /\ pc # "rr_recover") =>
        (proc # "crashed" /\ rrErr # Nil)

\* C2: whenever RunRouterFunc has returned to checkFunc, normally or after a
\* recovered fault or after the deadline, its context has been cancelled.
C2_ContextCancelledOnReturn ==
    pc = "rr_returned" => (cancelCalled /\ ctx \in {"canceled", "expired"})

\* C3: a resolution reached with a non-empty schemaPath and schemaFetchOnline
\* set fails with the conflict error whatever the embedded schema and the
\* version are, and produces no schema source: schemaPath is left as it was
\* and nothing is loaded.
C3_ConflictAlwaysRefused ==
    [][(pc = "resolve" /\ Len(schemaPath) > 0 /\ schemaFetchOnline) =>
          (/\ proc' = "exit1"
           /\ pc' = "exited"
           /\ Has(out'[Len(out')], ConflictMessage)
           /\ schemaPath' = schemaPath
           /\ doc' = Nil /\ sch' = NoSchema
           /\ ~Has(trace', "LoadSchema"))]_vars

\* C3, reached: a conflict refused in a build without an embedded schema
C3_Witness ==
    /\ EndedInConflict
    /\ LastStage = "ResolveSchemaSource"
    /\ rawEmbedSchema = EmptyString
    /\ KrakendVersion = <<"2", ".", "7", "-rc1">>

\* C4, as claimed: every run given both --schema and --online ends in the
\* conflict error, with no schema loaded before.
C4_Original ==
    (Ended /\ args.schema # EmptyString /\ args.online) =>
        (EndedInConflict /\ NoSchemaLoading)

\* the run failed before the resolution: no path, or the parse, the raw
\* content or the JSON conversion failed
FailedBeforeResolution ==
    /\ proc = "exit1"
    /\ LastStage \in {"none", "Parse", "ObtainRawBytes", "ParseAsJSON"}

\* C4, amended: a run given both --schema and --online never loads or compiles
\* a schema; it ends in the conflict error when linting is requested and the
\* path check, the parse, the raw content and the JSON conversion succeeded,
\* and never otherwise.
C4_ConflictBeforeLoading ==
    (proc # "idle" /\ args.schema # EmptyString /\ args.online) =>
        /\ NoSchemaLoading
        /\ Ended => (EndedInConflict <=> (schemaValidation /\ ~FailedBeforeResolution))
        /\ Has(trace, "ResolveSchemaSource") => (pc = "exited" /\ EndedInConflict)

\* C4, reached: both options given, linting requested, the conflict reported
C4_Witness ==
    /\ args.schema = HTTPSLocation /\ args.online
    /\ EndedInConflict
    /\ trace = <<"Parse", "ObtainRawBytes", "ParseAsJSON", "ResolveSchemaSource">>

\* the reads a schema source is loaded by
SourceReads == {"ReadFile(schema)", "HTTPGet", "UnmarshalJSON(rawEmbedSchema)"}

\* the read that loads the source schemaPath designates
ReadOf(loc) ==
    IF Len(loc) = 0 THEN "UnmarshalJSON(rawEmbedSchema)"
    ELSE IF Scheme(loc) = "file" THEN "ReadFile(schema)"
    ELSE IF Scheme(loc) \in {"http", "https"} THEN "HTTPGet"
    ELSE "none"

\* at most one source read, the resolved one, and one compilation from it
C5_OneSource ==
    /\ Count(io, "Compile") <= 1
    /\ \A e \in SourceReads : Count(io, e) <= (IF e = ReadOf(schemaPath) THEN 1 ELSE 0)
    /\ sch # NoSchema =>
          /\ Count(io, "Compile") = 1
          /\ Count(io, ReadOf(schemaPath)) = 1
          /\ sch.id = (IF Len(schemaPath) > 0 THEN schemaPath ELSE <<"schema.json">>)
          /\ sch.from = (IF Len(schemaPath) > 0 THEN "location" ELSE "embedded")

\* C5: when the options do not conflict the resolution leaves in schemaPath
\* the source the order gives: the online URL of the system version when
\* schemaFetchOnline is set or no embedded schema exists (a location given with
\* no embedded schema is replaced too), else the location given, else nothing
\* (the embedded schema); one source is read, the one resolved, and the schema
\* is compiled once from it.
C5_SourceByOrder ==
    /\ [](Has(trace, "ResolveSchemaSource") => C5_OneSource)
    /\ [][(pc = "resolve" /\ ~(Len(schemaPath) > 0 /\ schemaFetchOnline)) =>
             (/\ pc' = "load"
              /\ schemaPath' =
                    IF schemaFetchOnline \/ rawEmbedSchema = EmptyString
                    THEN onlineSchemaHead \o getVersionMinor(KrakendVersion) \o onlineSchemaTail
                    ELSE schemaPath)]_vars

\* C5, reached: a location given in a build with no embedded schema, and the
\* schema compiled from the online URL instead
C5_Witness ==
    /\ args.schema = FileLocation /\ ~args.online
    /\ rawEmbedSchema = EmptyString
    /\ KrakendVersion = <<"2", ".", "7", ".", "2">>
    /\ sch.id = <<"https", "://", "www.krakend.io/schema/v", "2", ".", "7", "/krakend.json">>
    /\ pc = "validate"

\* the stages the flags request, in the order of the pipeline
LintStages == <<"ObtainRawBytes", "ParseAsJSON", "ResolveSchemaSource", "LoadSchema",
                "CompileSchema", "Validate">>

RequestedStages ==
    <<"Parse">> \o (IF schemaValidation THEN LintStages ELSE <<>>)
                \o (IF debug > 0 THEN <<"Dump">> ELSE <<>>)
                \o (IF checkGinRoutes THEN <<"SimulateRoutes">> ELSE <<>>)
                \o <<"Report">>

\* the stage each error line reports on ("none": before any stage), by the
\* text of the line (without the "ERROR" that may precede it)
ErrorStages ==
    [m \in {"Please, provide the path to the configuration file with --config or see all the options with --help"} |-> {"none"}]
    @@ [m \in {" parsing the configuration file:"} |-> {"Parse"}]
    @@ [m \in {" loading the configuration content:"} |-> {"ObtainRawBytes"}]
    @@ [m \in {" converting configuration content to JSON:"} |-> {"ParseAsJSON"}]
    @@ [m \in {ConflictMessage} |-> {"ResolveSchemaSource"}]
    @@ [m \in {" compiling the custom schema:"} |-> {"LoadSchema", "CompileSchema"}]
    @@ [m \in {" parsing the embed schema:"} |-> {"LoadSchema"}]
    @@ [m \in {" compiling the embed schema:"} |-> {"CompileSchema"}]
    @@ [m \in {" linting the configuration file:"} |-> {"Validate"}]
    @@ [m \in {" checking the configuration file:"} |-> {"Dump"}]
    @@ [m \in {" testing the configuration file:"} |-> {"SimulateRoutes"}]

ErrorMessages == DOMAIN ErrorStages

IsErrorLine(line) == \E m \in ErrorMessages : Has(line, m)

HasErrorLine == \E i \in DOMAIN out : IsErrorLine(out[i])

\* the exit status of the process: 0 when checkFunc returns, 1 from os.Exit(1),
\* 2 from a panic nothing recovers
ExitStatus ==
    CASE proc = "returned" -> 0
      [] proc = "exit1" -> 1
      [] proc = "crashed" -> 2
      [] OTHER -> -1

\* C6: the run exits 0 and reports "Syntax OK!" exactly when every requested
\* stage succeeded: a run that returned went through every requested stage
\* with no failure, and any failure (an error line, a load error, a schema
\* that does not compile, a fault of the router) gives a non-zero exit and no
\* "Syntax OK!".
C6_ExitZeroIffAllSucceeded ==
    /\ ExitStatus = 0 =>
          /\ trace = RequestedStages
          /\ Has(LastLine, "Syntax OK!")
          /\ ~HasErrorLine
          /\ cfgFile # EmptyString /\ v # NoConfig
          /\ schemaValidation => (doc = "schema" /\ sch # NoSchema /\ loadErr = NoError)
          /\ checkGinRoutes => (rrErr = Nil /\ panicVal = NoPanic)
    /\ Printed("Syntax OK!") <=> ExitStatus = 0
    /\ HasErrorLine => (ExitStatus = 1 /\ pc = "exited")
    /\ (Ended /\ (loadErr # NoError \/ panicVal # NoPanic \/ rrErr # Nil \/ doc = "malformed"))
          => ExitStatus \in {1, 2}
    /\ (pc \in {"done", "exited"}) <=> Ended
    /\ ExitStatus = 1 => HasErrorLine
    /\ ExitStatus = 2 => panicVal # NoPanic

\* C6, reached: every stage requested and passed
C6_Witness ==
    /\ ExitStatus = 0
    /\ schemaValidation /\ debug > 0 /\ checkGinRoutes
    /\ Has(LastLine, "Syntax OK!")

IsPrefix(s, t) == Len(s) <= Len(t) /\ SubSeq(t, 1, Len(s)) = s

\* C7: the stages executed are an initial part of the requested stages in the
\* order of the pipeline (so each runs at most once, none is skipped and none
\* runs unrequested), and the stage that failed is the last one executed: the
\* error line is the last line and reports on the last stage.
C7_StagesInOrder ==
    /\ IsPrefix(trace, RequestedStages)
    /\ \A i \in DOMAIN out :
          IsErrorLine(out[i]) =>
             /\ i = Len(out)
             /\ \E m \in ErrorMessages : Has(out[i], m) /\ LastStage \in ErrorStages[m]
    /\ proc = "crashed" => LastStage = "SimulateRoutes"
    /\ Ended => (proc = "returned" <=> LastStage = "Report")

\* C7, reached: the ten stages, all requested, in order
C7_Witness ==
    trace = <<"Parse", "ObtainRawBytes", "ParseAsJSON", "ResolveSchemaSource", "LoadSchema",
              "CompileSchema", "Validate", "Dump", "SimulateRoutes", "Report">>

\* the error names the URL and the status code
NamesURLAndCode(e, url, code) ==
    /\ Len(e) > Len(url)
    /\ SubSeq(e, 1, Len(url)) = url
    /\ e[Len(e)] = ToString(code)

\* C8: a response whose status is not 200 is refused with an error naming the
\* URL and the status code and its body is never parsed; a transport error is
\* returned as it is, with no response in hand; a body that was parsed belongs
\* to a 200 response.
C8_NonOKNeverParsed ==
    /\ resp.parsed => resp.StatusCode = StatusOK
    /\ (resp # NoResponse /\ resp.StatusCode # StatusOK /\ pc # "http_status") =>
          /\ ~resp.parsed
          /\ doc = Nil /\ sch = NoSchema
          /\ NamesURLAndCode(loadErr, schemaPath, resp.StatusCode)
          /\ pc \in {"load_failed", "exited"}
    /\ (Has(io, "HTTPGet") /\ resp = NoResponse) =>
          /\ loadErr = <<"transport error">>
          /\ doc = Nil /\ sch = NoSchema
          /\ pc \in {"load_failed", "exited"}

\* C8, reached: a 404 refused
C8_Witness ==
    /\ resp.StatusCode = 404 /\ ~resp.parsed
    /\ schemaPath = HTTPLocation
    /\ loadErr = <<"http", "://", "example.com/krakend.json", " returned status code ", "404">>
    /\ proc = "exit1"

\* C9: once Load has returned with a response in hand, the body of that
\* response has been closed exactly once, on each exit path; it is never
\* closed twice and never left open.
C9_BodyClosedOnce ==
    resp # NoResponse =>
       /\ resp.closes <= 1
       /\ resp.open <=> resp.closes = 0
       /\ pc \notin {"http_status", "http_parse"} => (resp.closes = 1 /\ ~resp.open)

\* C9, reached: the body of a 200 response that did not parse, closed
C9_Witness ==
    /\ resp.StatusCode = StatusOK /\ resp.parsed
    /\ loadErr = <<"syntax error">>
    /\ resp.closes = 1 /\ ~resp.open
    /\ pc = "load_failed"

NumDots(s) == Cardinality({i \in DOMAIN s : s[i] = "."})

\* C10: for a version with at least two components (one dot or more) the
\* result is the part of the version before its second dot, which is its first
\* two components joined by a dot; a version with no dot is returned unchanged;
\* a result exists for every version.
C10_MajorMinor ==
    pc = "version_done" =>
       IF NumDots(verIn) = 0
       THEN verOut = verIn
       ELSE /\ IsPrefix(verOut, verIn)
            /\ NumDots(verOut) = 1
            /\ Len(verOut) = Len(verIn) \/ verIn[Len(verOut) + 1] = "."

\* C10, reached: a version with a patch component, cut to major.minor
C10_Witness ==
    /\ pc = "version_done"
    /\ verIn = <<"2", ".", "7", ".">>
    /\ verOut = <<"2", ".", "7">>

\* the tokens that are digits of a number
NumTokens == {"2", "7"}

IsNumber(s) == Len(s) > 0 /\ \A i \in DOMAIN s : s[i] \in NumTokens

\* the first n tokens of s are its major number, a dot and its whole minor number
MajorMinorPrefix(s, n) ==
    /\ n <= Len(s)
    /\ \E d \in 2..(n - 1) :
          /\ s[d] = "."
          /\ IsNumber(SubSeq(s, 1, d - 1))
          /\ IsNumber(SubSeq(s, d + 1, n))
    /\ n = Len(s) \/ s[n + 1] \notin NumTokens

\* C11: the version segment of the online URL is major.minor only: for a
\* version that starts major.minor, whatever follows (a patch component, a
\* pre-release qualifier) is discarded.
C11_OnlyMajorMinor ==
    pc = "version_done" =>
        \A n \in 1..Len(verIn) :
            MajorMinorPrefix(verIn, n) => verOut = SubSeq(verIn, 1, n)

\* C12: the resolution is a pure decision: a step of it leaves schemaPath,
\* schemaFetchOnline and rawEmbedSchema as they were.
C12_ResolutionPure ==
    [][pc = "resolve" =>
          (/\ schemaPath' = schemaPath
           /\ schemaFetchOnline' = schemaFetchOnline
           /\ rawEmbedSchema' = rawEmbedSchema)]_vars

\* the resolution chose the embedded schema
EmbeddedResolved ==
    /\ schemaValidation /\ rawEmbedSchema # EmptyString
    /\ ~schemaFetchOnline /\ Len(schemaPath) = 0
    /\ Has(trace, "ResolveSchemaSource")

\* C13: with the embedded schema resolved the run makes no HTTP request and
\* reads no schema file: the load is the parse of the embedded text, nothing
\* else, and the schema is compiled under "schema.json".
C13_EmbeddedNoAccess ==
    EmbeddedResolved =>
       /\ ~Has(io, "HTTPGet") /\ ~Has(io, "ReadFile(schema)")
       /\ resp = NoResponse
       /\ Has(trace, "LoadSchema") =>
             (/\ Count(io, "UnmarshalJSON(rawEmbedSchema)") = 1
              /\ (doc # Nil) = EmbedParses(rawEmbedSchema))
       /\ sch # NoSchema =>
             (/\ sch.id = <<"schema.json">> /\ sch.from = "embedded"
              /\ rawEmbedSchema = GoodEmbed)
       /\ (Has(trace, "CompileSchema") /\ rawEmbedSchema = GoodEmbed) => sch # NoSchema

\* C13, reached: the embedded schema parsed and compiled, with no other access
C13_Witness ==
    /\ EmbeddedResolved
    /\ parserHasLastSource
    /\ io = <<"LastSource", "UnmarshalJSON(rawEmbedSchema)", "Compile">>
    /\ sch = [id |-> <<"schema.json">>, from |-> "embedded"]
    /\ pc = "validate"

\* no step of the lint block has run
NoLintStep ==
    /\ \A i \in DOMAIN LintStages : ~Has(trace, LintStages[i])
    /\ io = <<>>
    /\ doc = Nil /\ sch = NoSchema /\ resp = NoResponse /\ loadErr = NoError
    /\ ~Printed("Linting configuration file...")

\* C14, as claimed: a run whose configuration parsed and that does not lint
\* runs no step of the lint block and exits 0 with "Syntax OK!".
C14_Original ==
    (~schemaValidation /\ v # NoConfig) =>
        /\ NoLintStep
        /\ Ended => (proc = "returned" /\ Has(LastLine, "Syntax OK!"))

\* C14, amended: such a run runs no step of the lint block, and it exits 0
\* with "Syntax OK!" unless the debug dump or the route simulation, when
\* requested, fails; with neither requested it always does.
C14_NoLintNoSchemaWork ==
    (~schemaValidation /\ v # NoConfig) =>
        /\ NoLintStep
        /\ Ended =>
              \/ proc = "returned" /\ Has(LastLine, "Syntax OK!")
              \/ proc = "exit1" /\ LastStage = "Dump" /\ debug > 0
              \/ proc \in {"exit1", "crashed"} /\ LastStage = "SimulateRoutes" /\ checkGinRoutes
        /\ (Ended /\ debug = 0 /\ ~checkGinRoutes) => proc = "returned"

\* C14, reached: no lint, the dump and the route simulation passed
C14_Witness ==
    /\ ~schemaValidation
    /\ proc = "returned"
    /\ trace = <<"Parse", "Dump", "SimulateRoutes", "Report">>
    /\ Has(LastLine, "Syntax OK!")

\* C15: the configuration checkFunc holds is not modified after the parse: no
\* step changes v once it is set (a new invocation starts afresh), the value
\* dumped is v, and the overrides of the debug flag (v.Debug or debug > 0) and
\* of the port (only when port is not 0) are in the copy RunRouterFunc works on.
C15_ConfigNotModified ==
    /\ [](dumped # NoConfig => dumped = v)
    /\ [](cfg # NoConfig =>
             cfg = [Debug |-> (v.Debug \/ debug > 0),
                    Port |-> IF port # 0 THEN port ELSE v.Port])
    /\ [][(v # NoConfig /\ pc' # "entry") => v' = v]_vars

\* C15, reached: both overrides applied to the copy, after the dump, and the
\* run over with v as parsed
C15_Witness ==
    /\ proc = "returned"
    /\ v = [Debug |-> FALSE, Port |-> 8080]
    /\ cfg = [Debug |-> TRUE, Port |-> 9090]
    /\ dumped = v
    /\ Has(trace, "SimulateRoutes")

\* the line starts with the "ERROR" marker, after the colour on a terminal
ErrorMarked(line) ==
    \/ Len(line) >= 1 /\ line[1] = "ERROR"
    \/ Len(line) >= 2 /\ line[1] = ColorRed /\ line[2] = "ERROR"

ErrorLines == {i \in DOMAIN out : IsErrorLine(out[i])}

\* C16: a run that failed, at whatever stage, has printed exactly one error
\* line and that line starts with the "ERROR" marker; a run that succeeded
\* ends with "Syntax OK!" and has printed no error line.
C16_OneMarkedErrorLine ==
    /\ (Ended /\ proc # "returned") =>
          /\ Cardinality(ErrorLines) = 1
          /\ \A i \in ErrorLines : ErrorMarked(out[i])
    /\ proc = "returned" => (Has(LastLine, "Syntax OK!") /\ ErrorLines = {})

\* the lines that announce a schema location
UsingLines == {i \in DOMAIN out : Has(out[i], "Using schema ")}

\* C17, as claimed: once the schema is being loaded, one line has announced
\* the resolved source, whichever of the three it is.
C17_Original ==
    Has(trace, "LoadSchema") => Cardinality(UsingLines) = 1

\* C17, amended: when the source is a location (the one given or the online
\* URL), one line "Using schema <location>" is printed before the load and
\* the compilation and before any error they report; for the embedded schema
\* no such line is printed; no line is printed before the resolution is over.
C17_LocationAnnounced ==
    /\ ~Has(trace, "LoadSchema") => UsingLines = {}
    /\ Has(trace, "LoadSchema") =>
          IF Len(schemaPath) > 0
          THEN /\ Cardinality(UsingLines) = 1
               /\ \A i \in UsingLines :
                     /\ out[i] = <<"Using schema ">> \o schemaPath
                     /\ \A k \in ErrorLines : i < k
                     /\ i > 1 /\ out[i - 1] = <<"Linting configuration file...">>
          ELSE UsingLines = {}

\* C17, reached: the online URL announced, then the load refused
C17_Witness ==
    /\ schemaFetchOnline
    /\ KrakendVersion = <<"2", ".", "7", ".", "2">>
    /\ ~IsTTY
    /\ Len(out) = 4
    /\ out[3] = <<"Using schema ", "https", "://", "www.krakend.io/schema/v", "2", ".", "7", "/krakend.json">>
    /\ out[4] = <<"ERROR", " compiling the custom schema:", "\t", "transport error", "\n">>

InvalidJSONText == " converting configuration content to JSON:"

\* C18: raw bytes that are no JSON end the run in the JSON error, which is not
\* the conflict error nor the lint error, at the JSON stage: before the
\* resolution, the load, the compilation and the validation, whatever the two
\* schema options are.
C18_InvalidJSONFirst ==
    /\ [](Printed(InvalidJSONText) =>
             /\ proc = "exit1" /\ pc = "exited"
             /\ Has(LastLine, InvalidJSONText) /\ ErrorMarked(LastLine)
             /\ Cardinality(ErrorLines) = 1
             /\ ~Printed(ConflictMessage)
             /\ ~Printed(" linting the configuration file:")
             /\ LastStage = "ParseAsJSON"
             /\ ~Has(trace, "ResolveSchemaSource") /\ ~Has(trace, "Validate")
             /\ NoSchemaLoading)
    /\ [][pc = "json" =>
             \/ pc' = "resolve" /\ proc' = proc /\ out' = out
             \/ /\ proc' = "exit1"
                /\ Has(out'[Len(out')], InvalidJSONText)
                /\ schemaPath' = schemaPath]_vars

\* C18, reached: the JSON error with --schema and --online both given
C18_Witness ==
    /\ args.schema = FileLocation /\ args.online
    /\ Len(schemaPath) > 0 /\ schemaFetchOnline
    /\ proc = "exit1"
    /\ Has(LastLine, InvalidJSONText)

RawContentText == " loading the configuration content:"

\* C19: the raw bytes come from one place per linting run: one call of
\* LastSource and no read of the configuration file when the parser has
\* LastSource, one read of the file and no call otherwise; a failure of that
\* one retrieval ends the run in the raw-content error, with no second try.
C19_OneRawSource ==
    /\ Count(io, "LastSource") =
          (IF Has(trace, "ObtainRawBytes") /\ parserHasLastSource THEN 1 ELSE 0)
    /\ Count(io, "ReadFile(cfgFile)") =
          (IF Has(trace, "ObtainRawBytes") /\ ~parserHasLastSource THEN 1 ELSE 0)
    /\ Printed(RawContentText) =>
          /\ proc = "exit1" /\ pc = "exited"
          /\ Has(LastLine, RawContentText)
          /\ LastStage = "ObtainRawBytes"
          /\ Len(io) = 1

\* C19, reached: LastSource failed and the run ended there, the file unread
C19_Witness ==
    /\ parserHasLastSource
    /\ proc = "exit1"
    /\ Has(LastLine, RawContentText)
    /\ io = <<"LastSource">>

\* C20: checkFunc is reentrant; a second invocation in the same process, which
\* the command makes with the same flags after a first run that returned, never
\* ends in the refusal of --schema together with --online.
C20_Reentrant == runs >= 2 => ~EndedInConflict

=============================================================================
